---- MODULE Spec2Model ----
(***************************************************************************)
(* A model of lispy (src/lispy.py): the Lexer, the Parser and the          *)
(* tree-walking Interpreter, driven through Lispy.eval.                    *)
(*                                                                         *)
(* A Python string is a sequence of one-character strings.  Every Type     *)
(* instance lives in `heap` under a reference (its index), so that two     *)
(* names for the same Python object are the same reference and an          *)
(* assignment to obj.value is seen through every one of them.              *)
(***************************************************************************)
EXTENDS Integers, Sequences, FiniteSets, TLC

VARIABLES
    heap,                     \* every Type instance created so far, by reference
    global_variable_context,  \* Interpreter.global_variable_context: name -> ref
    local_variable_contexts,  \* Interpreter.local_variable_contexts, innermost first
    functions,                \* Interpreter.functions: name -> callable
    string,                   \* the argument of the last Lispy.eval call
    output,                   \* how the last Lispy.eval call ended
    before,                   \* the interpreter state when that call started
    stdin,                    \* the console lines input() has not read yet
    steps,                    \* number of Lispy.eval calls so far
    stdout,                   \* the lines Lispy.repl has printed
    session                   \* Lispy.repl: "idle" (not called), "running",
                              \* "ended" (it returned), "raised" (an exception
                              \* left it)

vars == <<heap, global_variable_context, local_variable_contexts, functions,
          string, output, before, stdin, steps, stdout, session>>

(***************************************************************************)
(* Characters.                                                             *)
(***************************************************************************)
Digits == <<"0", "1", "2", "3", "4", "5", "6", "7", "8", "9">>

IsDigit(c) == \E i \in 1..Len(Digits) : Digits[i] = c

DigitValue(c) == (CHOOSE i \in 1..Len(Digits) : Digits[i] = c) - 1

\* s[i:] of a Python sequence, i counted from 0
Drop(s, i) == IF i >= Len(s) THEN <<>> ELSE SubSeq(s, i + 1, Len(s))

\* s[:i] of a Python sequence
Take(s, i) == IF i >= Len(s) THEN s ELSE SubSeq(s, 1, i)

(***************************************************************************)
(* Lexer.  A token is a word (a str) or a list of tokens; each tokenize_*  *)
(* method consumes the shared `chars` buffer from its front, so each       *)
(* operator returns what it collected together with the buffer left over.  *)
(***************************************************************************)
Word(w) == [t |-> "str", v |-> w]

Tokens(ts) == [t |-> "list", v |-> ts]

RECURSIVE tokenize_word(_, _)
tokenize_word(chars, result) ==
    IF chars = <<>> THEN [result |-> result, chars |-> chars]
    ELSE IF Head(chars) \in {" ", "(", ")"}
         THEN [result |-> result, chars |-> chars]
         ELSE tokenize_word(Tail(chars), Append(result, Head(chars)))

RECURSIVE tokenize_literal_rest(_, _)
tokenize_literal_rest(chars, result) ==
    IF chars = <<>> THEN [result |-> result, chars |-> chars]
    ELSE IF Head(chars) = "\""
         THEN [result |-> Append(result, Head(chars)), chars |-> Tail(chars)]
         ELSE tokenize_literal_rest(Tail(chars), Append(result, Head(chars)))

\* a literal read as a word: it ends before the next ' ', '(' or ')'
tokenize_literal_as_word(chars) == tokenize_word(chars, <<>>)

tokenize_literal(chars) == tokenize_literal_rest(Tail(chars), <<Head(chars)>>)

RECURSIVE tokenize_words(_, _)
tokenize_words(chars, result) ==
    IF chars = <<>> THEN [result |-> result, chars |-> chars]
    ELSE LET char == Head(chars) IN
         IF char \in {"(", ")"} THEN [result |-> result, chars |-> chars]
         ELSE IF char = " " THEN tokenize_words(Tail(chars), result)
         ELSE IF char = "\""
              THEN LET r == tokenize_literal(chars)
                   IN  tokenize_words(r.chars, Append(result, Word(r.result)))
              ELSE LET r == tokenize_word(chars, <<>>)
                   IN  tokenize_words(r.chars, Append(result, Word(r.result)))

\* tokenize_list after its first '(' has been dropped; error is TRUE when the
\* buffer ran out before the closing ')' (Lexer.InvalidInputError)
RECURSIVE tokenize_list_rest(_, _)
tokenize_list_rest(chars, result) ==
    IF chars = <<>> THEN [error |-> TRUE, result |-> result, chars |-> chars]
    ELSE LET char == Head(chars) IN
         IF char = ")"
         THEN [error |-> FALSE, result |-> result, chars |-> Tail(chars)]
         ELSE IF char = "("
              THEN LET r == tokenize_list_rest(Tail(chars), <<>>)
                   IN  IF r.error THEN r
                       ELSE tokenize_list_rest(r.chars,
                                               Append(result, Tokens(r.result)))
              ELSE LET r == tokenize_words(chars, <<>>)
                   IN  tokenize_list_rest(r.chars, result \o r.result)

tokenize_list(chars) == tokenize_list_rest(Tail(chars), <<>>)

replace_newlines(s) == [i \in 1..Len(s) |-> IF s[i] = "\n" THEN " " ELSE s[i]]

tokenize(s) ==
    IF s = <<>> THEN [error |-> FALSE, result |-> <<>>]
    ELSE LET chars == replace_newlines(s) IN
         IF chars[1] = "("
         THEN LET r == tokenize_list(chars)
              IN  [error |-> r.error, result |-> r.result]
         ELSE [error |-> FALSE, result |-> tokenize_words(chars, <<>>).result]

(***************************************************************************)
(* Values.  An object is [cls, value]: cls is the Python class and value   *)
(* the instance's .value attribute: "None" for Nil; 1 for T (Python's True *)
(* is the int 1); an integer for Integer; a reduced fraction <<n, d>> for  *)
(* Float; a string for String and Symbol; the element references for List. *)
(***************************************************************************)
NilObj == [cls |-> "Nil", value |-> "None"]

TObj == [cls |-> "T", value |-> 1]

IntegerObj(i) == [cls |-> "Integer", value |-> i]

FloatObj(q) == [cls |-> "Float", value |-> q]

StringObj(s) == [cls |-> "String", value |-> s]

SymbolObj(s) == [cls |-> "Symbol", value |-> s]

ListObj(elements) == [cls |-> "List", value |-> elements]

Abs(i) == IF i < 0 THEN -i ELSE i

RECURSIVE Gcd(_, _)
Gcd(a, b) == IF b = 0 THEN a ELSE Gcd(b, a % b)

\* the float n/d, as a reduced fraction with a positive denominator
Frac(n, d) ==
    LET g == Gcd(Abs(n), Abs(d))
        s == IF d < 0 THEN -1 ELSE 1
    IN  <<(s * n) \div g, (s * d) \div g>>

RECURSIVE Pow(_, _)
Pow(b, e) == IF e = 0 THEN 1 ELSE b * Pow(b, e - 1)

\* the outcome of a step of the interpreter: the state it leaves, the name of
\* the exception it raised ("" when it returned) and the reference it returned
Ok(st, v) == [st |-> st, err |-> "", v |-> v]

Raise(st, e) == [st |-> st, err |-> e, v |-> 0]

\* a constructor call: the new instance gets the next free reference
New(st, obj) ==
    Ok([st EXCEPT !.heap = Append(@, obj)], Len(st.heap) + 1)

(***************************************************************************)
(* Parser.                                                                 *)
(***************************************************************************)
AllDigits(s) == \A i \in 1..Len(s) : IsDigit(s[i])

RECURSIVE DecimalValue(_, _)
DecimalValue(s, acc) ==
    IF s = <<>> THEN acc ELSE DecimalValue(Tail(s), 10 * acc + DigitValue(Head(s)))

\* -?\d*  (the part of the float regex before its '.')
IsSignedDigits(s) ==
    IF s # <<>> /\ Head(s) = "-" THEN AllDigits(Tail(s)) ELSE AllDigits(s)

nil_regex(token) == token = <<"n", "i", "l">>

t_regex(token) == token = <<"t">>

\* ^(-?\d+)$
integer_regex(token) ==
    /\ token # <<>>
    /\ IF Head(token) = "-"
       THEN Tail(token) # <<>> /\ AllDigits(Tail(token))
       ELSE AllDigits(token)

\* ^(-?\d*.\d+)$ : the '.' is unescaped and matches any character
float_regex(token) ==
    \E k \in 1..Len(token) :
        /\ IsSignedDigits(Take(token, k - 1))
        /\ Drop(token, k) # <<>>
        /\ AllDigits(Drop(token, k))

\* ^"(.*)"$
string_regex(token) ==
    /\ Len(token) >= 2
    /\ token[1] = "\""
    /\ token[Len(token)] = "\""

\* int(x) for x matching the integer regex
int_of(x) ==
    IF Head(x) = "-" THEN -DecimalValue(Tail(x), 0) ELSE DecimalValue(x, 0)

\* float(x) for x matching the float regex and not the integer regex: Python
\* accepts [-]digits '.' digits, [-]digits 'e' digits, [-]digits '_' digits and
\* '+' digits, and raises ValueError for every other character in the place of
\* the regex's '.'
float_of(x) ==
    LET convert(pre, sign, int, c, frac) ==
            IF c = "."
            THEN [ok |-> TRUE,
                  value |-> Frac(sign * (DecimalValue(int, 0) * Pow(10, Len(frac))
                                         + DecimalValue(frac, 0)),
                                 Pow(10, Len(frac)))]
            ELSE IF c \in {"e", "E"} /\ int # <<>>
            THEN [ok |-> TRUE,
                  value |-> Frac(sign * DecimalValue(int, 0)
                                      * Pow(10, DecimalValue(frac, 0)), 1)]
            ELSE IF c = "_" /\ int # <<>>
            THEN [ok |-> TRUE,
                  value |-> Frac(sign * DecimalValue(int \o frac, 0), 1)]
            ELSE IF c = "+" /\ pre = <<>>
            THEN [ok |-> TRUE, value |-> Frac(DecimalValue(frac, 0), 1)]
            ELSE [ok |-> FALSE, value |-> <<0, 1>>]
        split(pre, c, frac) ==
            IF pre # <<>> /\ Head(pre) = "-"
            THEN convert(pre, -1, Tail(pre), c, frac)
            ELSE convert(pre, 1, pre, c, frac)
        at(k) == split(Take(x, k - 1), x[k], Drop(x, k))
    IN  at(CHOOSE k \in 1..Len(x) :
               /\ IsSignedDigits(Take(x, k - 1))
               /\ Drop(x, k) # <<>>
               /\ AllDigits(Drop(x, k)))

_parse_token(st, token) ==
    LET float(x) == IF x.ok THEN New(st, FloatObj(x.value))
                    ELSE Raise(st, "ValueError")
    IN
    IF nil_regex(token) THEN New(st, NilObj)
    ELSE IF t_regex(token) THEN New(st, TObj)
    ELSE IF integer_regex(token) THEN New(st, IntegerObj(int_of(token)))
    ELSE IF float_regex(token) THEN float(float_of(token))
    ELSE IF string_regex(token)
         THEN New(st, StringObj(SubSeq(token, 2, Len(token) - 1)))
    ELSE New(st, SymbolObj(token))

RECURSIVE parse(_, _)
RECURSIVE parse_tokens(_, _, _)
\* the for loop of Parser.parse over tokens, result holding the parsed so far
parse_tokens(st, tokens, result) ==
    IF tokens = <<>> THEN New(st, ListObj(result))
    ELSE LET token == Head(tokens)
             append(r) ==
                 IF r.err # "" THEN r
                 ELSE parse_tokens(r.st, Tail(tokens), Append(result, r.v))
         IN  append(IF token.t = "list" THEN parse(st, token.v)
                                        ELSE _parse_token(st, token.v))

parse(st, tokens) ==
    IF tokens = <<>> THEN New(st, NilObj) ELSE parse_tokens(st, tokens, <<>>)

(***************************************************************************)
(* Interpreter: its tables.  A dict keyed by Symbol is a function from the *)
(* Symbol's text; a callable is [py, arg_names, instructions], py naming   *)
(* the bound method, or "function" for the closure _defun builds, which    *)
(* captures arg_names and instructions.                                    *)
(***************************************************************************)
\* Interpreter.special_functions: the Symbol of each key and the method it names
special_functions ==
    { <<<<"q", "u", "o", "t", "e">>, "_quote">>,
      <<<<"d", "e", "f", "u", "n">>, "_defun">>,
      <<<<"i", "f">>, "_if">>,
      <<<<"l", "e", "t">>, "_let">>,
      <<<<"p", "r", "o", "g", "n">>, "_progn">>,
      <<<<"s", "e", "t">>, "_set">>,
      <<<<"g", "e", "t">>, "_get">> }

\* Interpreter.regular_functions
regular_functions ==
    { <<<<"l", "i", "s", "t">>, "_list">>,
      <<<<"c", "a", "r">>, "_car">>,
      <<<<"c", "d", "r">>, "_cdr">>,
      <<<<"c", "o", "n", "s">>, "_cons">>,
      <<<<"e", "q">>, "_equal">>,
      <<<<"=">>, "_equal">>,
      <<<<"+">>, "_sum">>,
      <<<<"s", "u", "m">>, "_sum">>,
      <<<<"-">>, "_sub">>,
      <<<<"s", "u", "b">>, "_sub">>,
      <<<<"*">>, "_mul">>,
      <<<<"m", "u", "l">>, "_mul">>,
      <<<<"/">>, "_div">>,
      <<<<"d", "i", "v">>, "_div">>,
      <<<<"p", "o", "w">>, "_pow">>,
      <<<<"w", "r", "i", "t", "e">>, "_write">>,
      <<<<"r", "e", "a", "d">>, "_read">>,
      <<<<"c", "o", "n", "c", "a", "t">>, "_concat">>,
      <<<<"f", "l", "o", "a", "t">>, "_float">>,
      <<<<"i", "n", "t">>, "_int">>,
      <<<<"s", "t", "r">>, "_str">> }

Method(py) == [py |-> py, arg_names |-> 0, instructions |-> 0]

Closure(arg_names, instructions) ==
    [py |-> "function", arg_names |-> arg_names, instructions |-> instructions]

Keys(table) == {e[1] : e \in table}

\* {**self.special_functions, **self.regular_functions}
InitialFunctions ==
    LET table == special_functions \cup regular_functions
    IN  [name \in Keys(table) |->
            Method((CHOOSE e \in table : e[1] = name)[2])]

EmptyDict == [name \in {} |-> 0]

\* d[k] = v
DictSet(d, k, v) == [name \in DOMAIN d \cup {k} |-> IF name = k THEN v ELSE d[name]]

\* Type defines __eq__ and no __hash__, so only Symbol instances are hashable
Hashable(obj) == obj.cls = "Symbol"

(***************************************************************************)
(* Python's == on Type instances.  Symbol.__eq__ asks for the same class   *)
(* and text; Type.__eq__ ends up comparing the two .value attributes, so   *)
(* Integer(1), Float(1.0) and T() are all equal.                           *)
(***************************************************************************)
ValueKind(obj) ==
    CASE obj.cls = "Nil" -> "None"
      [] obj.cls \in {"T", "Integer", "Float"} -> "number"
      [] obj.cls \in {"String", "Symbol"} -> "str"
      [] obj.cls = "List" -> "list"

AsFrac(obj) == IF obj.cls = "Float" THEN obj.value ELSE <<obj.value, 1>>

RECURSIVE PyEq(_, _, _)
PyEq(h, a, b) ==
    LET x == h[a]
        y == h[b]
    IN  IF x.cls = "Symbol" \/ y.cls = "Symbol"
        THEN x.cls = y.cls /\ x.value = y.value
        ELSE /\ ValueKind(x) = ValueKind(y)
             /\ CASE ValueKind(x) = "None" -> TRUE
                  [] ValueKind(x) = "number" -> AsFrac(x) = AsFrac(y)
                  [] ValueKind(x) = "str" -> x.value = y.value
                  [] ValueKind(x) = "list" ->
                        /\ Len(x.value) = Len(y.value)
                        /\ \A i \in 1..Len(x.value) :
                              \/ x.value[i] = y.value[i]
                              \/ PyEq(h, x.value[i], y.value[i])

\* obj == Nil()
EqualsNil(obj) == obj.cls = "Nil"

\* obj == T()
EqualsT(obj) == obj.cls \in {"T", "Integer", "Float"} /\ AsFrac(obj) = <<1, 1>>

\* bool(obj): Nil.__bool__ is False, List has __len__, everything else is true
Truthy(obj) ==
    CASE obj.cls = "Nil" -> FALSE
      [] obj.cls = "List" -> obj.value # <<>>
      [] OTHER -> TRUE

(***************************************************************************)
(* Interpreter: variables.                                                 *)
(***************************************************************************)
_is_global_variable(st, name) == name \in DOMAIN st.global_variable_context

_get_global_variable(st, name) ==
    IF name \in DOMAIN st.global_variable_context
    THEN Ok(st, st.global_variable_context[name])
    ELSE Raise(st, "KeyError")

\* a set that writes the innermost local scope when there is one
_set_global_variable_local(st, name, value) ==
    IF st.local_variable_contexts = <<>>
    THEN [st EXCEPT !.global_variable_context = DictSet(@, name, value)]
    ELSE [st EXCEPT !.local_variable_contexts[1] = DictSet(@, name, value)]

_set_global_variable(st, name, value) ==
    [st EXCEPT !.global_variable_context = DictSet(@, name, value)]

\* the search run from the outermost context inwards
_find_local_variable_context_outermost(st, name) ==
    LET found == {i \in 1..Len(st.local_variable_contexts) :
                      name \in DOMAIN st.local_variable_contexts[i]}
    IN  IF found = {} THEN 0
        ELSE CHOOSE i \in found : \A j \in found : i >= j

\* index of the first context that binds name, 0 for None
_find_local_variable_context(st, name) ==
    LET found == {i \in 1..Len(st.local_variable_contexts) :
                      name \in DOMAIN st.local_variable_contexts[i]}
    IN  IF found = {} THEN 0
        ELSE CHOOSE i \in found : \A j \in found : i <= j

_is_local_variable(st, name) == _find_local_variable_context(st, name) # 0

_is_variable(st, name) ==
    _is_global_variable(st, name) \/ _is_local_variable(st, name)

_get_variable(st, name) ==
    LET local_variable_context == _find_local_variable_context(st, name)
    IN  IF local_variable_context # 0
        THEN Ok(st, st.local_variable_contexts[local_variable_context][name])
        ELSE IF _is_global_variable(st, name)
        THEN _get_global_variable(st, name)
        ELSE Raise(st, "UndefinedVariableError")

_set_local_variable(st, name, value) ==
    [st EXCEPT !.local_variable_contexts[1] = DictSet(@, name, value)]

_create_local_variable_context(st) ==
    [st EXCEPT !.local_variable_contexts = <<EmptyDict>> \o @]

\* pop() in the place of pop(0): the outermost context goes
_delete_local_variable_context_last(st) ==
    [st EXCEPT !.local_variable_contexts = SubSeq(@, 1, Len(@) - 1)]

_delete_local_variable_context(st) ==
    [st EXCEPT !.local_variable_contexts = Tail(@)]

(***************************************************************************)
(* Interpreter: the regular functions.  args is the Python tuple of the    *)
(* evaluated arguments, a sequence of references.                          *)
(***************************************************************************)
FAdd(a, b) == Frac(a[1] * b[2] + b[1] * a[2], a[2] * b[2])

FMul(a, b) == Frac(a[1] * b[1], a[2] * b[2])

RECURSIVE SumOf(_, _)
SumOf(h, args) ==
    IF args = <<>> THEN <<0, 1>> ELSE FAdd(AsFrac(h[Head(args)]), SumOf(h, Tail(args)))

RECURSIVE ProductOf(_, _)
ProductOf(h, args) ==
    IF args = <<>> THEN <<1, 1>>
    ELSE FMul(AsFrac(h[Head(args)]), ProductOf(h, Tail(args)))

AllOf(h, args, classes) == \A i \in 1..Len(args) : h[args[i]].cls \in classes

\* Integer(x) and Float(x) check type(x): an arithmetic result that is an int goes
\* into Integer only, one that is a float into Float only; the result of Python
\* arithmetic is a float exactly when an operand is
Arithmetic(st, args, result) ==
    IF ~AllOf(st.heap, args, {"Integer", "Float", "T"}) THEN Raise(st, "TypeError")
    ELSE IF AllOf(st.heap, args, {"Integer"}) THEN New(st, IntegerObj(result[1]))
    ELSE IF AllOf(st.heap, args, {"Integer", "T"}) THEN Raise(st, "TypeError")
    ELSE New(st, FloatObj(result))

_list(st, args) == IF args = <<>> THEN New(st, NilObj) ELSE New(st, ListObj(args))

_car(st, l) ==
    LET obj == st.heap[l]
    IN  IF obj.cls = "Nil" THEN New(st, NilObj)
        ELSE IF obj.cls # "List" THEN Raise(st, "TypeError")
        ELSE IF Len(obj.value) < 1 THEN New(st, NilObj)
        ELSE Ok(st, obj.value[1])

_cdr(st, l) ==
    LET obj == st.heap[l]
    IN  IF obj.cls = "Nil" THEN New(st, NilObj)
        ELSE IF obj.cls # "List" THEN Raise(st, "TypeError")
        ELSE IF Len(obj.value) <= 1 THEN New(st, NilObj)
        ELSE New(st, ListObj(Tail(obj.value)))

_cons(st, value, list) ==
    LET obj == st.heap[list]
    IN  IF ~Truthy(obj) THEN New(st, ListObj(<<value>>))
        ELSE IF obj.cls # "List" THEN Raise(st, "TypeError")
        ELSE New(st, ListObj(<<value>> \o obj.value))

_equal(st, x, y) == IF PyEq(st.heap, x, y) THEN New(st, TObj) ELSE New(st, NilObj)

_sum(st, args) == Arithmetic(st, args, SumOf(st.heap, args))

\* x.value *= -1 on the argument itself, which is then returned
Negate(obj) ==
    CASE obj.cls \in {"Integer", "T"} -> [obj EXCEPT !.value = -1 * @]
      [] obj.cls = "Float" -> [obj EXCEPT !.value = <<-1 * @[1], @[2]>>]
      [] obj.cls \in {"String", "Symbol", "List"} -> [obj EXCEPT !.value = <<>>]

\* y is 0 for the default None
_sub(st, x, y) ==
    IF y # 0 /\ Truthy(st.heap[y])
    THEN IF AllOf(st.heap, <<x, y>>, {"Integer", "Float", "T"})
         THEN LET b == AsFrac(st.heap[y])
              IN  Arithmetic(st, <<x, y>>, FAdd(AsFrac(st.heap[x]), <<-b[1], b[2]>>))
         ELSE Raise(st, "TypeError")
    ELSE IF st.heap[x].cls = "Nil" THEN Raise(st, "TypeError")
         ELSE Ok([st EXCEPT !.heap[x] = Negate(@)], x)

_mul(st, args) == Arithmetic(st, args, ProductOf(st.heap, args))

_div(st, x, y) ==
    IF ~AllOf(st.heap, <<x, y>>, {"Integer", "Float", "T"}) THEN Raise(st, "TypeError")
    ELSE LET a == AsFrac(st.heap[x])
             b == AsFrac(st.heap[y])
         IN  IF b[1] = 0 THEN Raise(st, "ZeroDivisionError")
             ELSE New(st, FloatObj(Frac(a[1] * b[2], a[2] * b[1])))

\* x ** y for an integral y; an int to a negative power is a float
_pow(st, x, y) ==
    IF ~AllOf(st.heap, <<x, y>>, {"Integer", "Float", "T"}) THEN Raise(st, "TypeError")
    ELSE LET a == AsFrac(st.heap[x])
             b == AsFrac(st.heap[y])
             float == \/ ~AllOf(st.heap, <<x, y>>, {"Integer", "T"})
                      \/ b[1] < 0
             output_class == IF AllOf(st.heap, <<x, y>>, {"Integer"})
                             THEN "Integer" ELSE "Float"
         IN  IF b[2] # 1 THEN Raise(st, "OutOfModel")
             ELSE IF b[1] < 0 /\ a[1] = 0 THEN Raise(st, "ZeroDivisionError")
             ELSE IF float # (output_class = "Float") THEN Raise(st, "TypeError")
             ELSE IF float
             THEN New(st, FloatObj(IF b[1] < 0
                                   THEN Frac(Pow(a[2], -b[1]), Pow(a[1], -b[1]))
                                   ELSE Frac(Pow(a[1], b[1]), Pow(a[2], b[1]))))
             ELSE New(st, IntegerObj(Pow(a[1], b[1])))

\* what is printed is not part of the model
_write(st, arg, end) == New(st, NilObj)

\* input() takes the next line of the console, EOFError when there is none
_read(st) ==
    IF st.stdin = <<>> THEN Raise(st, "EOFError")
    ELSE New([st EXCEPT !.stdin = Tail(@)], StringObj(Head(st.stdin)))

RECURSIVE Join(_, _)
Join(h, args) == IF args = <<>> THEN <<>> ELSE h[Head(args)].value \o Join(h, Tail(args))

_concat(st, args) ==
    IF AllOf(st.heap, args, {"String", "Symbol"})
    THEN New(st, StringObj(Join(st.heap, args)))
    ELSE Raise(st, "TypeError")

\* float(arg.value), for numbers and for strings in the parser's two number
\* grammars; other spellings of a float are outside the model
_float(st, arg) ==
    LET obj == st.heap[arg]
        float(x) == IF x.ok THEN New(st, FloatObj(x.value))
                    ELSE Raise(st, "OutOfModel")
    IN  IF obj.cls \in {"Integer", "Float", "T"} THEN New(st, FloatObj(AsFrac(obj)))
        ELSE IF obj.cls \in {"Nil", "List"} THEN Raise(st, "TypeError")
        ELSE IF integer_regex(obj.value)
        THEN New(st, FloatObj(Frac(int_of(obj.value), 1)))
        ELSE IF float_regex(obj.value) THEN float(float_of(obj.value))
        ELSE Raise(st, "OutOfModel")

\* int(x) of a float truncates towards zero
Truncate(q) == IF q[1] < 0 THEN -((-q[1]) \div q[2]) ELSE q[1] \div q[2]

_int(st, arg) ==
    LET int(r) == IF r.err # "" THEN Raise(st, r.err)
                  ELSE New(st, IntegerObj(Truncate(r.st.heap[r.v].value)))
    IN  int(_float(st, arg))

RECURSIVE DecimalDigits(_)
DecimalDigits(i) ==
    IF i < 10 THEN <<Digits[i + 1]>>
    ELSE Append(DecimalDigits(i \div 10), Digits[(i % 10) + 1])

\* str(i) of an int
decimal(i) == IF i < 0 THEN <<"-">> \o DecimalDigits(-i) ELSE DecimalDigits(i)

\* str(arg.value); the repr of a float with a fraction is outside the model
_str(st, arg) ==
    LET obj == st.heap[arg]
    IN  CASE obj.cls = "Integer" -> New(st, StringObj(decimal(obj.value)))
          [] obj.cls \in {"String", "Symbol"} -> New(st, StringObj(obj.value))
          [] obj.cls = "Nil" -> New(st, StringObj(<<"N", "o", "n", "e">>))
          [] obj.cls = "Float" /\ obj.value[2] = 1 ->
                New(st, StringObj(decimal(obj.value[1]) \o <<".", "0">>))
          [] OTHER -> Raise(st, "OutOfModel")

(***************************************************************************)
(* Interpreter: execute and the special forms.                             *)
(***************************************************************************)
\* the number of positional arguments each method accepts
AcceptsArgs(py, n) ==
    CASE py \in {"_quote", "_get", "_car", "_cdr", "_float", "_int", "_str"} -> n = 1
      [] py \in {"_set", "_cons", "_equal", "_div", "_pow"} -> n = 2
      [] py = "_defun" -> n = 3
      [] py = "_if" -> n \in {2, 3}
      [] py \in {"_sub", "_write"} -> n \in {1, 2}
      [] py = "_let" -> n >= 1
      [] py = "_read" -> n = 0
      [] OTHER -> TRUE

\* the items of `for name, value in var_defs` when var_defs is a Value: each
\* element must unpack into exactly two
UnpackPairs(h, var_defs) ==
    [i \in 1..Len(h[var_defs].value) |->
        LET pair == h[h[var_defs].value[i]]
        IN  IF pair.cls # "List" THEN [err |-> "TypeError", name |-> 0, value |-> 0]
            ELSE IF Len(pair.value) # 2
            THEN [err |-> "ValueError", name |-> 0, value |-> 0]
            ELSE [err |-> "", name |-> pair.value[1], value |-> pair.value[2]]]

\* zip(arg_names, values)
Zip(h, arg_names, values) ==
    LET names == h[arg_names].value
        n == IF Len(names) < Len(values) THEN Len(names) ELSE Len(values)
    IN  [i \in 1..n |-> [err |-> "", name |-> names[i], value |-> values[i]]]

\* the first for loop of _let: binds every pair in the innermost context
RECURSIVE bind_var_defs(_, _)
bind_var_defs(st, pairs) ==
    IF pairs = <<>> THEN Ok(st, 0)
    ELSE LET pair == Head(pairs)
         IN  IF pair.err # "" THEN Raise(st, pair.err)
             ELSE IF ~Hashable(st.heap[pair.name]) THEN Raise(st, "TypeError")
             ELSE bind_var_defs(
                      _set_local_variable(st, st.heap[pair.name].value, pair.value),
                      Tail(pairs))

RECURSIVE execute(_, _)

_evaluate_if_list(st, param) ==
    IF st.heap[param].cls = "List" THEN execute(st, param) ELSE Ok(st, param)

\* the for loop of _evaluate_args; v of the outcome is the list `result`
RECURSIVE _evaluate_args(_, _, _)
_evaluate_args(st, args, result) ==
    IF args = <<>> THEN Ok(st, result)
    ELSE LET arg == Head(args)
             obj == st.heap[arg]
             append(r) ==
                 IF r.err # "" THEN r
                 ELSE _evaluate_args(r.st, Tail(args), Append(result, r.v))
         IN  append(IF obj.cls = "List" THEN execute(st, arg)
                    ELSE IF obj.cls = "Symbol"
                    THEN IF _is_variable(st, obj.value)
                         THEN _get_variable(st, obj.value)
                         ELSE execute(st, arg)
                    ELSE Ok(st, arg))

\* [self._evaluate_if_list(a) for a in arg_values]
RECURSIVE evaluate_arg_values(_, _, _)
evaluate_arg_values(st, arg_values, values) ==
    IF arg_values = <<>> THEN Ok(st, values)
    ELSE LET append(r) ==
                 IF r.err # "" THEN r
                 ELSE evaluate_arg_values(r.st, Tail(arg_values),
                                          Append(values, r.v))
         IN  append(_evaluate_if_list(st, Head(arg_values)))

\* for instruction in instructions: result = self.execute(instruction)
RECURSIVE execute_instructions(_, _, _)
execute_instructions(st, instructions, result) ==
    IF instructions = <<>> THEN Ok(st, result)
    ELSE LET next(r) ==
                 IF r.err # "" THEN r
                 ELSE execute_instructions(r.st, Tail(instructions), r.v)
         IN  next(execute(st, Head(instructions)))

_quote(st, arg) == Ok(st, arg)

_progn(st, instructions) ==
    LET loop(nil) == execute_instructions(nil.st, instructions, nil.v)
    IN  loop(New(st, NilObj))

\* var_defs is [err, pairs]: err is the exception iterating var_defs raises (""
\* when it is iterable), pairs what the iteration yields
_let(st, var_defs, instructions) ==
    LET bind(created) ==
            IF var_defs.err # "" THEN Raise(created, var_defs.err)
            ELSE bind_var_defs(created, var_defs.pairs)
        leave(result) ==
            IF result.err # "" THEN result
            ELSE Ok(_delete_local_variable_context(result.st), result.v)
        loop(nil) == leave(execute_instructions(nil.st, instructions, nil.v))
        body(bound) ==
            IF bound.err # "" THEN bound ELSE loop(New(bound.st, NilObj))
    IN  body(bind(_create_local_variable_context(st)))

\* var_defs of the special form: a Value, iterable when it is a List
_let_form(st, var_defs, instructions) ==
    _let(st,
         IF st.heap[var_defs].cls = "List"
         THEN [err |-> "", pairs |-> UnpackPairs(st.heap, var_defs)]
         ELSE [err |-> "TypeError", pairs |-> <<>>],
         instructions)

\* the closure `function` of _defun, called with arg_values
function(st, arg_names, instructions, arg_values) ==
    LET call(values) ==
            IF values.err # "" THEN values
            ELSE IF values.st.heap[arg_names].cls # "List"
            THEN Raise(values.st, "TypeError")
            ELSE _let(values.st,
                      [err |-> "",
                       pairs |-> Zip(values.st.heap, arg_names, values.v)],
                      <<instructions>>)
    IN  call(evaluate_arg_values(st, arg_values, <<>>))

_defun(st, function_name, arg_names, instructions) ==
    IF ~Hashable(st.heap[function_name]) THEN Raise(st, "TypeError")
    ELSE Ok([st EXCEPT !.functions =
                 DictSet(@, st.heap[function_name].value,
                         Closure(arg_names, instructions))],
            function_name)

\* false_expr is 0 when the default Nil() is taken
_if(st, condition, true_expr, false_expr) ==
    LET branch(condition_result) ==
            IF condition_result.err # "" THEN condition_result
            ELSE IF ~EqualsNil(condition_result.st.heap[condition_result.v])
            THEN _evaluate_if_list(condition_result.st, true_expr)
            ELSE IF false_expr = 0 THEN New(condition_result.st, NilObj)
            ELSE _evaluate_if_list(condition_result.st, false_expr)
    IN  branch(_evaluate_if_list(st, condition))

\* returns None, which is 0
_set(st, name, value) ==
    LET assign(r) ==
            IF r.err # "" THEN r
            ELSE IF ~Hashable(r.st.heap[name]) THEN Raise(r.st, "TypeError")
            ELSE Ok(_set_global_variable(r.st, r.st.heap[name].value, r.v), 0)
    IN  assign(_evaluate_if_list(st, value))

_get(st, name) ==
    IF ~Hashable(st.heap[name]) THEN Raise(st, "TypeError")
    ELSE _get_global_variable(st, st.heap[name].value)

\* function(*args)
Call(st, callable, args) ==
    LET py == callable.py
        n == Len(args)
        Arg(i) == IF i <= n THEN args[i] ELSE 0
    IN  IF ~AcceptsArgs(py, n) THEN Raise(st, "TypeError")
        ELSE CASE py = "_quote" -> _quote(st, args[1])
               [] py = "_defun" -> _defun(st, args[1], args[2], args[3])
               [] py = "_if" -> _if(st, args[1], args[2], Arg(3))
               [] py = "_let" -> _let_form(st, args[1], Tail(args))
               [] py = "_progn" -> _progn(st, args)
               [] py = "_set" -> _set(st, args[1], args[2])
               [] py = "_get" -> _get(st, args[1])
               [] py = "_list" -> _list(st, args)
               [] py = "_car" -> _car(st, args[1])
               [] py = "_cdr" -> _cdr(st, args[1])
               [] py = "_cons" -> _cons(st, args[1], args[2])
               [] py = "_equal" -> _equal(st, args[1], args[2])
               [] py = "_sum" -> _sum(st, args)
               [] py = "_sub" -> _sub(st, args[1], Arg(2))
               [] py = "_mul" -> _mul(st, args)
               [] py = "_div" -> _div(st, args[1], args[2])
               [] py = "_pow" -> _pow(st, args[1], args[2])
               [] py = "_write" -> _write(st, args[1], Arg(2))
               [] py = "_read" -> _read(st)
               [] py = "_concat" -> _concat(st, args)
               [] py = "_float" -> _float(st, args[1])
               [] py = "_int" -> _int(st, args[1])
               [] py = "_str" -> _str(st, args[1])
               [] py = "function" ->
                      function(st, callable.arg_names, callable.instructions, args)

execute(st, instruction) ==
    LET obj == st.heap[instruction]
    IN  IF obj.cls \in {"Symbol", "Integer", "Float", "String"}
        THEN Raise(st, "UndefinedSymbolError")
        ELSE IF EqualsNil(obj) THEN New(st, NilObj)
        ELSE IF obj.cls # "List" THEN Raise(st, "UnboundLocalError")
        ELSE IF obj.value = <<>> THEN Raise(st, "IndexError")
        ELSE
        LET function_name == st.heap[Head(obj.value)]
            args == Tail(obj.value)
        IN  IF EqualsNil(function_name) THEN New(st, NilObj)
            ELSE IF EqualsT(function_name) THEN New(st, TObj)
            ELSE IF ~Hashable(function_name) THEN Raise(st, "TypeError")
            ELSE
            LET return(result) ==
                    IF result.err # "" THEN result
                    ELSE IF result.v = 0 \/ EqualsNil(result.st.heap[result.v])
                    THEN New(result.st, NilObj)
                    ELSE result
                call(evaluated) ==
                    IF evaluated.err # "" THEN evaluated
                    ELSE IF function_name.value
                                \notin DOMAIN evaluated.st.functions
                    THEN Raise(evaluated.st, "UndefinedFunctionError")
                    ELSE return(Call(evaluated.st,
                                     evaluated.st.functions[function_name.value],
                                     evaluated.v))
            IN  call(IF function_name.value \in Keys(regular_functions)
                     THEN _evaluate_args(st, args, <<>>)
                     ELSE Ok(st, args))

(***************************************************************************)
(* Lispy.eval: tokenize, parse, execute.                                   *)
(***************************************************************************)
eval(st, s) ==
    LET run(instruction) ==
            IF instruction.err # "" THEN instruction
            ELSE execute(instruction.st, instruction.v)
        read(tokens) ==
            IF tokens.error THEN Raise(st, "InvalidInputError")
            ELSE run(parse(st, tokens.result))
    IN  read(tokenize(s))

(***************************************************************************)
(* The strings given to Lispy.eval.                                        *)
(***************************************************************************)
\* (let ((x 1)) (boom))
LetUndefinedFunction ==
    <<"(", "l", "e", "t", " ", "(", "(", "x", " ", "1", ")", ")", " ", "(",
      "b", "o", "o", "m", ")", ")">>

\* (list x)
ListX ==
    <<"(", "l", "i", "s", "t", " ", "x", ")">>

\* (abc 1 2)
UnknownFunction ==
    <<"(", "a", "b", "c", " ", "1", " ", "2", ")">>

\* (nil 1)
NilHead ==
    <<"(", "n", "i", "l", " ", "1", ")">>

\* (2 3)
IntegerHead ==
    <<"(", "2", " ", "3", ")">>

\* ((list) 1)
ListHead ==
    <<"(", "(", "l", "i", "s", "t", ")", " ", "1", ")">>

\* (get foo)
GetFoo ==
    <<"(", "g", "e", "t", " ", "f", "o", "o", ")">>

\* (set foo 3)
SetFoo ==
    <<"(", "s", "e", "t", " ", "f", "o", "o", " ", "3", ")">>

\* (let ((foo 1)) (get foo))
LetGetFoo ==
    <<"(", "l", "e", "t", " ", "(", "(", "f", "o", "o", " ", "1", ")", ")",
      " ", "(", "g", "e", "t", " ", "f", "o", "o", ")", ")">>

\* (defun g (a) (- 1))
DefunNegateLiteral ==
    <<"(", "d", "e", "f", "u", "n", " ", "g", " ", "(", "a", ")", " ", "(",
      "-", " ", "1", ")", ")">>

\* (g 0)
CallG ==
    <<"(", "g", " ", "0", ")">>

\* (let ((x 1)) (- x) (list x))
LetNegate ==
    <<"(", "l", "e", "t", " ", "(", "(", "x", " ", "1", ")", ")", " ", "(",
      "-", " ", "x", ")", " ", "(", "l", "i", "s", "t", " ", "x", ")", ")">>

\* (- foo)
NegateFoo ==
    <<"(", "-", " ", "f", "o", "o", ")">>

\* (let ((x (+ 1 2))) (list x))
LetCall ==
    <<"(", "l", "e", "t", " ", "(", "(", "x", " ", "(", "+", " ", "1", " ",
      "2", ")", ")", ")", " ", "(", "l", "i", "s", "t", " ", "x", ")", ")">>

\* (defun foo (x) (list x))
DefunFooList ==
    <<"(", "d", "e", "f", "u", "n", " ", "f", "o", "o", " ", "(", "x", ")",
      " ", "(", "l", "i", "s", "t", " ", "x", ")", ")">>

\* (let ((y 5)) (foo y))
LetFooY ==
    <<"(", "l", "e", "t", " ", "(", "(", "y", " ", "5", ")", ")", " ", "(",
      "f", "o", "o", " ", "y", ")", ")">>

\* (foo (+ 1 2))
FooCall ==
    <<"(", "f", "o", "o", " ", "(", "+", " ", "1", " ", "2", ")", ")">>

\* (let ((x 1)) (let ((x 2)) (list x)))
NestedLetsSameName ==
    <<"(", "l", "e", "t", " ", "(", "(", "x", " ", "1", ")", ")", " ", "(",
      "l", "e", "t", " ", "(", "(", "x", " ", "2", ")", ")", " ", "(", "l",
      "i", "s", "t", " ", "x", ")", ")", ")">>

\* (let ((x 1)) (let ((y 2)) (list x y)))
NestedLets ==
    <<"(", "l", "e", "t", " ", "(", "(", "x", " ", "1", ")", ")", " ", "(",
      "l", "e", "t", " ", "(", "(", "y", " ", "2", ")", ")", " ", "(", "l",
      "i", "s", "t", " ", "x", " ", "y", ")", ")", ")">>

\* (let ((x 1)) (let ((x 2))) (list x))
LetLocalBinding ==
    <<"(", "l", "e", "t", " ", "(", "(", "x", " ", "1", ")", ")", " ", "(",
      "l", "e", "t", " ", "(", "(", "x", " ", "2", ")", ")", ")", " ", "(",
      "l", "i", "s", "t", " ", "x", ")", ")">>

\* (let ((foo 1)) (list foo))
LetListFoo ==
    <<"(", "l", "e", "t", " ", "(", "(", "f", "o", "o", " ", "1", ")", ")",
      " ", "(", "l", "i", "s", "t", " ", "f", "o", "o", ")", ")">>

\* (defun foo (x) x)
DefunFooX ==
    <<"(", "d", "e", "f", "u", "n", " ", "f", "o", "o", " ", "(", "x", ")",
      " ", "x", ")">>

\* (foo 2)
Foo2 ==
    <<"(", "f", "o", "o", " ", "2", ")">>

\* (defun bar () 1)
DefunBar ==
    <<"(", "d", "e", "f", "u", "n", " ", "b", "a", "r", " ", "(", ")", " ",
      "1", ")">>

\* (bar)
Bar ==
    <<"(", "b", "a", "r", ")">>
Strings ==
    {LetUndefinedFunction,
     ListX,
     UnknownFunction,
     NilHead,
     IntegerHead,
     ListHead,
     GetFoo,
     SetFoo,
     LetGetFoo,
     DefunNegateLiteral,
     CallG,
     LetNegate,
     NegateFoo,
     LetCall,
     DefunFooList,
     LetFooY,
     FooCall,
     NestedLetsSameName,
     NestedLets,
     LetLocalBinding,
     LetListFoo,
     DefunFooX,
     Foo2,
     DefunBar,
     Bar}

\* the lines the console holds for input()
ConsoleLines == <<<<"a", "b", "c">>>>

(***************************************************************************)
(* The state machine: a session of Lispy.eval calls on one Lispy object.   *)
(***************************************************************************)
MaxSteps == 3

(***************************************************************************)
(* Object lifetime.  The tokens, the parsed instruction and every value a  *)
(* call created are dropped by Python once no name reaches them: what the  *)
(* interpreter keeps between two calls is what its three tables reach.     *)
(* References are identities only, so the kept objects are renumbered in   *)
(* their order of creation.                                                *)
(***************************************************************************)
Range(f) == {f[x] : x \in DOMAIN f}

Elements(h, ref) == IF h[ref].cls = "List" THEN Range(h[ref].value) ELSE {}

RECURSIVE ReachableFrom(_, _)
ReachableFrom(h, refs) ==
    LET more == refs \cup UNION {Elements(h, r) : r \in refs}
    IN  IF more = refs THEN refs ELSE ReachableFrom(h, more)

Roots(st) ==
    Range(st.global_variable_context)
        \cup UNION {Range(st.local_variable_contexts[i]) :
                        i \in 1..Len(st.local_variable_contexts)}
        \cup UNION {{st.functions[f].arg_names, st.functions[f].instructions} :
                        f \in {g \in DOMAIN st.functions :
                                   st.functions[g].py = "function"}}

Collect(st) ==
    LET live == ReachableFrom(st.heap, Roots(st))
        Rank(r) == Cardinality({q \in live : q <= r})
        Old(i) == CHOOSE r \in live : Rank(r) = i
        Moved(obj) == IF obj.cls = "List"
                      THEN [obj EXCEPT !.value = [i \in DOMAIN @ |-> Rank(@[i])]]
                      ELSE obj
    IN  [heap |-> [i \in 1..Cardinality(live) |-> Moved(st.heap[Old(i)])],
         global_variable_context |->
             [n \in DOMAIN st.global_variable_context |->
                 Rank(st.global_variable_context[n])],
         local_variable_contexts |->
             [i \in 1..Len(st.local_variable_contexts) |->
                 [n \in DOMAIN st.local_variable_contexts[i] |->
                     Rank(st.local_variable_contexts[i][n])]],
         functions |->
             [f \in DOMAIN st.functions |->
                 IF st.functions[f].py = "function"
                 THEN Closure(Rank(st.functions[f].arg_names),
                              Rank(st.functions[f].instructions))
                 ELSE st.functions[f]],
         stdin |-> st.stdin]

\* the interpreter state as the record the operators above work on
State ==
    [heap |-> heap,
     global_variable_context |-> global_variable_context,
     local_variable_contexts |-> local_variable_contexts,
     functions |-> functions,
     stdin |-> stdin]

Init ==
    /\ heap = <<>>
    /\ global_variable_context = EmptyDict
    /\ local_variable_contexts = <<>>
    /\ functions = InitialFunctions
    /\ stdin = ConsoleLines
    /\ string = <<>>
    /\ output = [err |-> "", v |-> 0]
    /\ before = [heap |-> <<>>,
                 global_variable_context |-> EmptyDict,
                 local_variable_contexts |-> <<>>,
                 functions |-> InitialFunctions,
                 stdin |-> ConsoleLines]
    /\ steps = 0
    /\ stdout = <<>>
    /\ session = "idle"

\* one call self.eval(s); an exception leaves the state as it was when raised
Eval(s) ==
    /\ steps < MaxSteps
    /\ LET leave(r) ==
               /\ heap' = r.st.heap
               /\ global_variable_context' = r.st.global_variable_context
               /\ local_variable_contexts' = r.st.local_variable_contexts
               /\ functions' = r.st.functions
               /\ stdin' = r.st.stdin
               /\ output' = [err |-> r.err, v |-> r.v]
       IN  leave(eval(Collect(State), s))
    /\ string' = s
    /\ before' = Collect(State)
    /\ steps' = steps + 1
    /\ UNCHANGED <<stdout, session>>

Next == \E s \in Strings : Eval(s)

Spec == Init /\ [][Next]_vars

(***************************************************************************)
(* Reading values.                                                         *)
(***************************************************************************)
\* the value under a reference with every element reference followed
RECURSIVE Deep(_, _)
Deep(h, ref) ==
    IF h[ref].cls = "List"
    THEN [cls |-> "List", value |-> [i \in 1..Len(h[ref].value) |-> Deep(h, h[ref].value[i])]]
    ELSE h[ref]

ListOf(elements) == [cls |-> "List", value |-> elements]

\* the value a string parses to
Parsed(s) ==
    LET value(r) == Deep(r.st.heap, r.v)
    IN  value(parse([heap |-> <<>>], tokenize(s).result))

\* the instruction the last call executed, as parsed in the state it started in
Instruction ==
    LET value(r) == Deep(r.st.heap, r.v)
    IN  value(parse(before, tokenize(string).result))

\* st holds, under its name, the function the string s (a defun form) defines
Defines(st, s) ==
    LET defined(form, name) ==
            /\ name \in DOMAIN st.functions
            /\ st.functions[name].py = "function"
            /\ Deep(st.heap, st.functions[name].arg_names) = form[3]
            /\ Deep(st.heap, st.functions[name].instructions) = form[4]
        of(form) == defined(form, form[2].value)
    IN  of(Parsed(s).value)

Called == steps > 0

Returned == Called /\ output.err = ""

Result == Deep(heap, output.v)

\* some scope of st, local or global, binds name
BoundIn(st, name) ==
    \/ name \in DOMAIN st.global_variable_context
    \/ \E i \in 1..Len(st.local_variable_contexts) :
           name \in DOMAIN st.local_variable_contexts[i]

Foo == <<"f", "o", "o">>

X == <<"x">>

(***************************************************************************)
(* Claims.                                                                 *)
(***************************************************************************)
\* C1: every execute call that pushes a local scope pops it on every exit
\* path: the local scope stack a call leaves is the stack it started with,
\* whether the call returned or raised.
C1_ScopePoppedOnEveryExit ==
    Called => local_variable_contexts = before.local_variable_contexts

\* C2: executing a non-empty List whose first element is not a Symbol naming a
\* special form or a registered function fails with UndefinedFunction, whatever
\* the head is.
C2_UnknownHeadRaisesUndefinedFunction ==
    (/\ Called
     /\ ~tokenize(string).error
     /\ Instruction.cls = "List"
     /\ LET function_name == Instruction.value[1]
        IN  \/ function_name.cls # "Symbol"
            \/ function_name.value \notin DOMAIN before.functions)
        => output.err = "UndefinedFunctionError"

\* C3: get(name) of a name with no global binding, also of one bound only in an
\* enclosing let, fails with UndefinedVariable.
C3_GetUnboundRaisesUndefinedVariable ==
    (/\ Called
     /\ string \in {GetFoo, LetGetFoo}
     /\ Foo \notin DOMAIN before.global_variable_context)
        => output.err = "UndefinedVariableError"

\* C4: evaluation never mutates an existing Value: every object that existed
\* when a call started holds the same value when the call ends.
C4_NoValueMutated ==
    Called => \A ref \in 1..Len(before.heap) : heap[ref] = before.heap[ref]

\* C5: let binds a name whose value is a call expression to the result of the
\* call: (let ((x (+ 1 2))) (list x)) returns (3).
C5_LetBindsResultOfCall ==
    (Called /\ string = LetCall)
        => Returned /\ Result = ListOf(<<IntegerObj(3)>>)

\* C6: a defun-registered function receives evaluated arguments: a Symbol bound
\* at the call site reaches the parameter as the bound value, so after
\* (defun foo (x) (list x)) the call (let ((y 5)) (foo y)) returns (5).
C6_FunctionReceivesEvaluatedSymbol ==
    (Called /\ string = LetFooY /\ Defines(before, DefunFooList))
        => Returned /\ Result = ListOf(<<IntegerObj(5)>>)

\* C7: a regular function's Symbol argument is looked up in the local scopes
\* innermost first and then in the global table: the inner binding of a name
\* shadows the outer one, a name bound only in the outer let is seen in the
\* inner let, after the inner let has exited the outer binding is seen again
\* with its value, a local binding is seen before a global one, and a name no
\* scope binds is taken from the global table.
C7_InnermostScopeFirst ==
    Called =>
        /\ string = NestedLetsSameName
               => Returned /\ Result = ListOf(<<IntegerObj(2)>>)
        /\ string = NestedLets
               => Returned /\ Result = ListOf(<<IntegerObj(1), IntegerObj(2)>>)
        /\ string = LetLocalBinding
               => Returned /\ Result = ListOf(<<IntegerObj(1)>>)
        /\ string = LetListFoo
               => Returned /\ Result = ListOf(<<IntegerObj(1)>>)
        /\ string = NegateFoo
               => LET scopes == before.local_variable_contexts
                      binding == {i \in 1..Len(scopes) : Foo \in DOMAIN scopes[i]}
                      seen == IF binding # {}
                              THEN scopes[CHOOSE i \in binding :
                                              \A j \in binding : i <= j][Foo]
                              ELSE before.global_variable_context[Foo]
                  IN  BoundIn(before, Foo)
                          => /\ Returned
                             /\ Result = IntegerObj(-before.heap[seen].value)

C7_Witness ==
    /\ Returned
    /\ string = LetLocalBinding
    /\ Result = ListOf(<<IntegerObj(1)>>)
    /\ BoundIn(before, X)

\* C8: a call of a defun-registered function that returns leaves its parameter
\* unbound if it was unbound before, and passing a name bound neither locally
\* nor globally to a regular function fails with UndefinedSymbol.
C8_FunctionScopeDoesNotLeak ==
    /\ (/\ Returned
        /\ string \in {FooCall, LetFooY}
        /\ Defines(before, DefunFooList)
        /\ ~BoundIn(before, X))
           => ~BoundIn(State, X)
    /\ (Called /\ string = ListX /\ ~BoundIn(before, X))
           => output.err = "UndefinedSymbolError"

C8_Witness ==
    /\ Returned
    /\ string = FooCall
    /\ Defines(before, DefunFooList)
    /\ Result = ListOf(<<IntegerObj(3)>>)
    /\ ~BoundIn(State, X)

\* C9: after (defun foo (x) x) the call (foo 2) returns the argument, 2.
C9_FunctionReturnsParameter ==
    (Called /\ string = Foo2 /\ Defines(before, DefunFooX))
        => Returned /\ Result = IntegerObj(2)

\* C10: (defun bar () 1) returns the name bar and registers the function, and
\* the call (bar) then returns the result of the body, 1.
C10_FunctionWithoutParameters ==
    /\ (Called /\ string = DefunBar)
           => Returned /\ Result = SymbolObj(<<"b", "a", "r">>)
                       /\ Defines(State, DefunBar)
    /\ (Called /\ string = Bar /\ Defines(before, DefunBar))
           => Returned /\ Result = IntegerObj(1)

(***************************************************************************)
(* Calls of if, atom and set.  The strings are built from the text of a    *)
(* literal, and every call goes through Lispy.eval as before.              *)
(***************************************************************************)
\* nil, t, 1, -2, 1.5, "a"
Literals ==
    {<<"n", "i", "l">>, <<"t">>, <<"1">>, <<"-", "2">>, <<"1", ".", "5">>,
      <<"\"", "a", "\"">>}

\* (list 1 2 3)
List123 ==
    <<"(", "l", "i", "s", "t", " ", "1", " ", "2", " ", "3", ")">>

\* (let ((x v)) (if t x 2))
IfThen(v) ==
    <<"(", "l", "e", "t", " ", "(", "(", "x", " ">> \o v \o <<")", ")", " ",
      "(", "i", "f", " ", "t", " ", "x", " ", "2", ")", ")">>

\* (let ((x v)) (if nil 2 x))
IfElse(v) ==
    <<"(", "l", "e", "t", " ", "(", "(", "x", " ">> \o v \o <<")", ")", " ",
      "(", "i", "f", " ", "n", "i", "l", " ", "2", " ", "x", ")", ")">>

\* (atom v)
Atom(v) == <<"(", "a", "t", "o", "m", " ">> \o v \o <<")">>

\* (let ((foo 1)) (set foo 3) (list foo))
LetSetFoo ==
    <<"(", "l", "e", "t", " ", "(", "(", "f", "o", "o", " ", "1", ")", ")",
      " ", "(", "s", "e", "t", " ", "f", "o", "o", " ", "3", ")", " ", "(",
      "l", "i", "s", "t", " ", "f", "o", "o", ")", ")">>

\* (defun f (foo) (set foo (list foo 7)))
DefunSetter ==
    <<"(", "d", "e", "f", "u", "n", " ", "f", " ", "(", "f", "o", "o", ")",
      " ", "(", "s", "e", "t", " ", "f", "o", "o", " ", "(", "l", "i", "s",
      "t", " ", "f", "o", "o", " ", "7", ")", ")", ")">>

\* (f 1)
CallSetter ==
    <<"(", "f", " ", "1", ")">>

\* (let ((foo 5)) (f 2))
LetCallSetter ==
    <<"(", "l", "e", "t", " ", "(", "(", "f", "o", "o", " ", "5", ")", ")",
      " ", "(", "f", " ", "2", ")", ")">>

FormStrings ==
    {IfThen(v) : v \in Literals} \cup {IfElse(v) : v \in Literals}
        \cup {Atom(v) : v \in Literals \cup {List123}}
        \cup {LetSetFoo, DefunSetter, CallSetter, LetCallSetter,
              SetFoo, GetFoo, LetListFoo}

NextForms == \E s \in FormStrings : Eval(s)

SpecForms == Init /\ [][NextForms]_vars

\* the value the parser makes of the text of a literal
Literal(v) ==
    LET value(r) == Deep(r.st.heap, r.v)
    IN  value(_parse_token([heap |-> <<>>], v))

\* the global variable table of st, every value read through its reference
GlobalTable(st) ==
    [name \in DOMAIN st.global_variable_context |->
        Deep(st.heap, st.global_variable_context[name])]

\* C11: in an if evaluated inside a let, a then-branch or else-branch that is a
\* bare Symbol bound by the let evaluates to the value bound to the Symbol:
\* (let ((x v)) (if t x 2)) and (let ((x v)) (if nil 2 x)) return v for every
\* literal v.
C11_IfBranchSymbolIsLookedUp ==
    Called =>
        \A v \in Literals :
            string \in {IfThen(v), IfElse(v)}
                => Returned /\ Result = Literal(v)

\* C12: atom is a registered builtin: (atom x) returns True for a Nil, True,
\* Integer, Float or String x and Nil for a List x, and never fails with
\* UndefinedFunction.
C12_AtomIsRegistered ==
    Called =>
        /\ \A v \in Literals : string = Atom(v) => Returned /\ Result = TObj
        /\ string = Atom(List123) => Returned /\ Result = NilObj

\* C19: set writes the global variable table and returns Nil, also inside a let
\* or a function body with a local binding of the same name: the local binding
\* keeps its value, let and parameter bindings never add or change an entry of
\* the global table, and a later (get foo) returns the value given to set.
C19_SetWritesGlobalTable ==
    Called =>
        /\ string = SetFoo
               => /\ Returned /\ Result = NilObj
                  /\ GlobalTable(State)[Foo] = IntegerObj(3)
        /\ string = LetSetFoo
               => /\ Returned /\ Result = ListOf(<<IntegerObj(1)>>)
                  /\ GlobalTable(State)[Foo] = IntegerObj(3)
        /\ (string = CallSetter /\ Defines(before, DefunSetter))
               => /\ Returned /\ Result = NilObj
                  /\ GlobalTable(State)[Foo]
                         = ListOf(<<IntegerObj(1), IntegerObj(7)>>)
        /\ (string = LetCallSetter /\ Defines(before, DefunSetter))
               => /\ Returned /\ Result = NilObj
                  /\ GlobalTable(State)[Foo]
                         = ListOf(<<IntegerObj(2), IntegerObj(7)>>)
        /\ string \in {SetFoo, LetSetFoo, CallSetter, LetCallSetter}
               => /\ DOMAIN global_variable_context
                         \subseteq DOMAIN before.global_variable_context \cup {Foo}
                  /\ Returned
                         => local_variable_contexts = before.local_variable_contexts
        /\ string \notin {SetFoo, LetSetFoo, CallSetter, LetCallSetter}
               => GlobalTable(State) = GlobalTable(before)
        /\ (string = GetFoo /\ Foo \in DOMAIN before.global_variable_context)
               => Returned /\ Result = GlobalTable(before)[Foo]

C19_Witness ==
    /\ Returned
    /\ string = GetFoo
    /\ Result = ListOf(<<IntegerObj(2), IntegerObj(7)>>)
    /\ Defines(State, DefunSetter)

(***************************************************************************)
(* Arithmetic on two Integer literals: one call (op a b) in a new          *)
(* interpreter, for every operator and every pair of operands.             *)
(***************************************************************************)
MaxOperand == 3

Operands == (-MaxOperand)..MaxOperand

\* +, -, *, pow
ArithmeticOperators == {<<"+">>, <<"-">>, <<"*">>, <<"p", "o", "w">>}

\* (op a b)
ArithmeticString(op, a, b) ==
    <<"(">> \o op \o <<" ">> \o decimal(a) \o <<" ">> \o decimal(b) \o <<")">>

NextArithmetic ==
    \E op \in ArithmeticOperators, a, b \in Operands :
        steps = 0 /\ Eval(ArithmeticString(op, a, b))

SpecArithmetic == Init /\ [][NextArithmetic]_vars

\* C13: for Integer operands, negative ones included, +, -, * and pow return an
\* Integer holding the mathematical result, and pow returns an Integer
\* whatever the sign of the exponent.
C13_IntegerArithmeticReturnsInteger ==
    Called =>
        \A a, b \in Operands :
            /\ string = ArithmeticString(<<"+">>, a, b)
                   => Returned /\ Result = IntegerObj(a + b)
            /\ string = ArithmeticString(<<"-">>, a, b)
                   => Returned /\ Result = IntegerObj(a - b)
            /\ string = ArithmeticString(<<"*">>, a, b)
                   => Returned /\ Result = IntegerObj(a * b)
            /\ string = ArithmeticString(<<"p", "o", "w">>, a, b)
                   => /\ Returned
                      /\ Result.cls = "Integer"
                      /\ b >= 0 => Result.value = Pow(a, b)

(***************************************************************************)
(* Equality of two evaluated arguments: one call (eq x y) or (= x y) in a  *)
(* new interpreter, for every pair of argument expressions.                *)
(***************************************************************************)
\* nil, t, 1, 0, "a", "1", (quote a), (list), (list 1), (list t), (list "a"), (quote (a))
Terms ==
    {<<"n", "i", "l">>,
     <<"t">>,
     <<"1">>,
     <<"0">>,
     <<"\"", "a", "\"">>,
     <<"\"", "1", "\"">>,
     <<"(", "q", "u", "o", "t", "e", " ", "a", ")">>,
     <<"(", "l", "i", "s", "t", ")">>,
     <<"(", "l", "i", "s", "t", " ", "1", ")">>,
     <<"(", "l", "i", "s", "t", " ", "t", ")">>,
     <<"(", "l", "i", "s", "t", " ", "\"", "a", "\"", ")">>,
     <<"(", "q", "u", "o", "t", "e", " ", "(", "a", ")", ")">>}

\* eq and =
EqualOperators == {<<"e", "q">>, <<"=">>}

\* (f x y)
CallString(f, x, y) == <<"(">> \o f \o <<" ">> \o x \o <<" ">> \o y \o <<")">>

NextEqual ==
    \E f \in EqualOperators, x, y \in Terms :
        steps = 0 /\ Eval(CallString(f, x, y))

SpecEqual == Init /\ [][NextEqual]_vars

\* the values the arguments x and y evaluate to, as (list x y) collects them
Evaluated(x, y) ==
    LET value(r) == Deep(r.st.heap, r.v).value
    IN  value(eval(before, CallString(<<"l", "i", "s", "t">>, x, y)))

\* two values are structurally equal: the same variant, and the same value,
\* element by element
StructurallyEqual(args) == args[1] = args[2]

\* C14: eq and = return True exactly when the two evaluated arguments are
\* structurally equal and Nil otherwise: values of different variants among
\* Nil, True, Integer, String, Symbol and List are never reported equal, in
\* either argument order.
C14_EqualIsStructural ==
    Called =>
        \A f \in EqualOperators, x, y \in Terms :
            string = CallString(f, x, y)
                => /\ Returned
                   /\ Result = IF StructurallyEqual(Evaluated(x, y))
                               THEN TObj ELSE NilObj

(***************************************************************************)
(* Lexer.tokenize on its own: for every string of at most MaxLength        *)
(* characters after a first '(', one call of tokenize.                     *)
(***************************************************************************)
MaxLength == 4

\* '(', ')', space, '"' and a word character
LexerAlphabet == {"(", ")", " ", "\"", "a"}

LexerStrings ==
    {<<"(">> \o rest :
        rest \in UNION {[1..n -> LexerAlphabet] : n \in 0..MaxLength}}

InitLexer ==
    /\ heap = <<>>
    /\ global_variable_context = EmptyDict
    /\ local_variable_contexts = <<>>
    /\ functions = InitialFunctions
    /\ stdin = ConsoleLines
    /\ string \in LexerStrings
    /\ output = [err |-> "", v |-> 0]
    /\ before = State
    /\ steps = 0
    /\ stdout = <<>>
    /\ session = "idle"

\* self.lexer.tokenize(string)
Tokenize ==
    /\ steps = 0
    /\ output' = tokenize(string)
    /\ steps' = 1
    /\ UNCHANGED <<heap, global_variable_context, local_variable_contexts,
                   functions, string, before, stdin, stdout, session>>

NextLexer == Tokenize

SpecLexer == InitLexer /\ [][NextLexer]_vars

\* the length of the longest prefix of chars holding no character of stops
RECURSIVE Span(_, _)
Span(chars, stops) ==
    IF chars = <<>> \/ Head(chars) \in stops THEN 0
    ELSE 1 + Span(Tail(chars), stops)

\* One scan of chars from left to right that counts the open parentheses: the
\* parentheses, words and quoted literals met up to the ')' that brings the
\* count back to zero, or error when the end comes first.  A quoted literal
\* runs from a '"' at the start of a token to the next '"' or to the end.
RECURSIVE Scan(_, _, _)
Scan(chars, depth, lexemes) ==
    IF chars = <<>> THEN [error |-> TRUE, lexemes |-> lexemes]
    ELSE CASE Head(chars) = "(" ->
                  Scan(Tail(chars), depth + 1, Append(lexemes, <<"(">>))
           [] Head(chars) = ")" ->
                  IF depth = 1
                  THEN [error |-> FALSE, lexemes |-> Append(lexemes, <<")">>)]
                  ELSE Scan(Tail(chars), depth - 1, Append(lexemes, <<")">>))
           [] Head(chars) = " " -> Scan(Tail(chars), depth, lexemes)
           [] Head(chars) = "\"" ->
                  LET skip(n) == Scan(Drop(chars, n), depth,
                                      Append(lexemes, Take(chars, n)))
                  IN  skip(2 + Span(Tail(chars), {"\""}))
           [] OTHER ->
                  LET skip(n) == Scan(Drop(chars, n), depth,
                                      Append(lexemes, Take(chars, n)))
                  IN  skip(Span(chars, {" ", "(", ")"}))

\* the words of a token tree in order, each list between its parentheses
RECURSIVE Flatten(_)
Flatten(tokens) ==
    IF tokens = <<>> THEN <<>>
    ELSE (IF Head(tokens).t = "list"
          THEN <<<<"(">>>> \o Flatten(Head(tokens).v) \o <<<<")">>>>
          ELSE <<Head(tokens).v>>) \o Flatten(Tail(tokens))

\* C15: for every string that starts with '(', tokenize terminates; it fails
\* with InvalidInputError exactly when the string ends before the ')' matching
\* the first '(' (parentheses inside a quoted literal not counting), and
\* otherwise returns the token tree of that first group: one nested list per
\* matched pair of parentheses and the words in input order.
C15_TokenizeBalancedGroup ==
    Called =>
        /\ output.error = Scan(string, 0, <<>>).error
        /\ ~output.error
               => <<<<"(">>>> \o Flatten(output.result) \o <<<<")">>>>
                      = Scan(string, 0, <<>>).lexemes

\* ("(") is read as one literal
C15_Witness ==
    /\ Called
    /\ string = <<"(", "\"", "(", "\"", ")">>
    /\ ~output.error
    /\ output.result = <<Word(<<"\"", "(", "\"">>)>>

(***************************************************************************)
(* Rendering, and the round trip of an integer literal: for every integer  *)
(* n of at most MaxInteger in absolute value, the text str(n) is lexed,    *)
(* parsed and rendered.                                                    *)
(***************************************************************************)
\* ' '.join(strings)
RECURSIVE JoinWithSpace(_)
JoinWithSpace(strings) ==
    IF strings = <<>> THEN <<>>
    ELSE IF Len(strings) = 1 THEN strings[1]
    ELSE strings[1] \o <<" ">> \o JoinWithSpace(Tail(strings))

\* str(obj) of the object under ref: the __repr__ of its class; the repr of a
\* float is modelled for the whole numbers below 10 ** 16
RECURSIVE __repr__(_, _)
__repr__(h, ref) ==
    LET obj == h[ref]
    IN  CASE obj.cls = "Nil" -> <<"n", "i", "l">>
          [] obj.cls = "T" -> <<"t">>
          [] obj.cls = "Integer" -> decimal(obj.value)
          [] obj.cls = "Float" ->
                 IF obj.value[2] = 1 /\ Abs(obj.value[1]) < Pow(10, 16)
                 THEN decimal(obj.value[1]) \o <<".", "0">>
                 ELSE <<"OutOfModel">>
          [] obj.cls = "String" -> obj.value
          [] obj.cls = "Symbol" -> <<":">> \o obj.value
          [] obj.cls = "List" ->
                 <<"(">>
                     \o JoinWithSpace([i \in 1..Len(obj.value) |->
                                          __repr__(h, obj.value[i])])
                     \o <<")">>

MaxInteger == 60

InitRoundTrip ==
    /\ heap = <<>>
    /\ global_variable_context = EmptyDict
    /\ local_variable_contexts = <<>>
    /\ functions = InitialFunctions
    /\ stdin = ConsoleLines
    /\ string \in {decimal(n) : n \in (-MaxInteger)..MaxInteger}
    /\ output = [err |-> "", v |-> 0]
    /\ before = State
    /\ steps = 0
    /\ stdout = <<>>
    /\ session = "idle"

\* str(self.parser.parse(self.lexer.tokenize(string))); v of the output is the
\* text
RoundTrip ==
    /\ steps = 0
    /\ LET render(r) ==
               IF r.err # "" THEN [err |-> r.err, v |-> <<>>]
               ELSE [err |-> "", v |-> __repr__(r.st.heap, r.v)]
           read(tokens) ==
               IF tokens.error THEN [err |-> "InvalidInputError", v |-> <<>>]
               ELSE render(parse(State, tokens.result))
       IN  output' = read(tokenize(string))
    /\ steps' = 1
    /\ UNCHANGED <<heap, global_variable_context, local_variable_contexts,
                   functions, string, before, stdin, stdout, session>>

NextRoundTrip == RoundTrip

SpecRoundTrip == InitRoundTrip /\ [][NextRoundTrip]_vars

\* C16: for every integer n, lexing, parsing and rendering the text str(n)
\* gives back the text str(n).
C16_IntegerRoundTrip ==
    Called => output.err = "" /\ output.v = string

(***************************************************************************)
(* Parser._parse_token on its own: for every leaf token of at most         *)
(* MaxTokenLength characters, one call.                                    *)
(***************************************************************************)
MaxTokenLength == 3

\* the letters of nil and t, a sign, a digit, a dot, another letter, a quote
TokenAlphabet == {"n", "i", "l", "t", "-", "1", ".", "x", "\""}

LeafTokens == UNION {[1..n -> TokenAlphabet] : n \in 1..MaxTokenLength}

InitParser ==
    /\ heap = <<>>
    /\ global_variable_context = EmptyDict
    /\ local_variable_contexts = <<>>
    /\ functions = InitialFunctions
    /\ stdin = ConsoleLines
    /\ string \in LeafTokens
    /\ output = [err |-> "", v |-> 0]
    /\ before = State
    /\ steps = 0
    /\ stdout = <<>>
    /\ session = "idle"

\* self.parser._parse_token(string); v of the output is the value made
ParseToken ==
    /\ steps = 0
    /\ LET made(r) ==
               IF r.err # "" THEN [err |-> r.err, v |-> 0]
               ELSE [err |-> "", v |-> Deep(r.st.heap, r.v)]
       IN  output' = made(_parse_token(State, string))
    /\ steps' = 1
    /\ UNCHANGED <<heap, global_variable_context, local_variable_contexts,
                   functions, string, before, stdin, stdout, session>>

NextParser == ParseToken

SpecParser == InitParser /\ [][NextParser]_vars

\* the class the grammars give a token, taken in the order nil, t, integer
\* (-?\d+), float (-?\d*\.\d+, with a '.'), quoted string, and Symbol for a
\* token that matches none
Classified(token) ==
    IF token = <<"n", "i", "l">> THEN "Nil"
    ELSE IF token = <<"t">> THEN "T"
    ELSE IF integer_regex(token) THEN "Integer"
    ELSE IF \E k \in 1..Len(token) :
                /\ token[k] = "."
                /\ IsSignedDigits(Take(token, k - 1))
                /\ Drop(token, k) # <<>>
                /\ AllDigits(Drop(token, k))
         THEN "Float"
    ELSE IF Len(token) >= 2 /\ token[1] = "\"" /\ token[Len(token)] = "\""
         THEN "String"
    ELSE "Symbol"

\* C18: the parser classifies every leaf token in the order nil, t, integer,
\* float, quoted string, and a token that matches none of them becomes a
\* Symbol carrying the token text: parsing a leaf token never fails, and a
\* letter followed by a digit is parsed as a Symbol.
C18_UnmatchedTokenIsSymbol ==
    Called =>
        /\ output.err = ""
        /\ output.v.cls = Classified(string)
        /\ Classified(string) = "Symbol" => output.v = SymbolObj(string)

(***************************************************************************)
(* Lispy.repl: the loop reads an expression from the console, evaluates    *)
(* it and prints the output, for every console of at most MaxLines lines.  *)
(* A printed line is [error, text]: text is the text of an output; of an   *)
(* 'ERROR: ...' line, whose message is not modelled, it holds the class of *)
(* the exception.                                                          *)
(***************************************************************************)
MaxLines == 3

\* (list 1)
List1 ==
    <<"(", "l", "i", "s", "t", " ", "1", ")">>

\* (read)
Read ==
    <<"(", "r", "e", "a", "d", ")">>

\* (list
OpenList ==
    <<"(", "l", "i", "s", "t">>

\* the lines typed at the prompt
ReplLines ==
    {List1, UnknownFunction, IntegerHead, GetFoo, SetFoo, Read, OpenList,
     <<")">>}

Consoles == UNION {[1..n -> ReplLines] : n \in 0..MaxLines}

\* class LispyError and its subclasses
LispyError ==
    {"LispyError", "InvalidInputError", "UndefinedSymbolError",
     "UndefinedFunctionError", "UndefinedVariableError"}

Line(text) == [error |-> FALSE, text |-> text]

\* 'ERROR: {}'.format(str(e))
ErrorLine(e) == [error |-> TRUE, text |-> <<e>>]

\* print('\n{}'.format(self.farewell_message))
farewell_message == <<Line(<<>>), Line(<<"b", "y", "e", "!">>)>>

\* string.count('(') - string.count(')')
RECURSIVE count_parentheses(_)
count_parentheses(line) ==
    IF line = <<>> THEN 0
    ELSE (CASE Head(line) = "(" -> 1
            [] Head(line) = ")" -> -1
            [] OTHER -> 0) + count_parentheses(Tail(line))

\* the while loop of _read_input: input() takes the next line of the console
\* and raises EOFError when there is none
RECURSIVE _read_input(_, _, _)
_read_input(console, buffer, parentheses_difference) ==
    IF parentheses_difference > 0 \/ buffer = <<>>
    THEN IF console = <<>>
         THEN [err |-> "EOFError", string |-> <<>>, stdin |-> console]
         ELSE _read_input(Tail(console), Append(buffer, Head(console)),
                          parentheses_difference
                              + count_parentheses(Head(console)))
    ELSE [err |-> "", string |-> JoinWithSpace(buffer), stdin |-> console]

\* repl() has printed the welcome message, which is empty
InitRepl ==
    /\ heap = <<>>
    /\ global_variable_context = EmptyDict
    /\ local_variable_contexts = <<>>
    /\ functions = InitialFunctions
    /\ stdin \in Consoles
    /\ string = <<>>
    /\ output = [err |-> "", v |-> 0]
    /\ before = [heap |-> <<>>,
                 global_variable_context |-> EmptyDict,
                 local_variable_contexts |-> <<>>,
                 functions |-> InitialFunctions,
                 stdin |-> <<>>]
    /\ steps = 0
    /\ stdout = <<Line(<<>>)>>
    /\ session = "running"

\* one pass of the while loop of repl
Repl ==
    /\ session = "running"
    /\ LET print(r) ==
               IF r.err = ""
               THEN /\ stdout' = Append(stdout, Line(__repr__(r.st.heap, r.v)))
                    /\ session' = "running"
               ELSE IF r.err \in LispyError
               THEN /\ stdout' = Append(stdout, ErrorLine(r.err))
                    /\ session' = "running"
               ELSE IF r.err \in {"KeyboardInterrupt", "EOFError"}
               THEN /\ stdout' = stdout \o farewell_message
                    /\ session' = "ended"
               ELSE /\ stdout' = stdout
                    /\ session' = "raised"
           leave(r) ==
               /\ heap' = r.st.heap
               /\ global_variable_context' = r.st.global_variable_context
               /\ local_variable_contexts' = r.st.local_variable_contexts
               /\ functions' = r.st.functions
               /\ stdin' = r.st.stdin
               /\ output' = [err |-> r.err, v |-> r.v]
               /\ print(r)
           run(st, s) ==
               /\ string' = s
               /\ before' = st
               /\ steps' = steps + 1
               /\ leave(eval(st, s))
           loop(read) ==
               IF read.err # ""
               THEN /\ stdin' = read.stdin
                    /\ stdout' = stdout \o farewell_message
                    /\ session' = "ended"
                    /\ UNCHANGED <<heap, global_variable_context,
                                   local_variable_contexts, functions, string,
                                   output, before, steps>>
               ELSE run([Collect(State) EXCEPT !.stdin = read.stdin],
                        read.string)
       IN  loop(_read_input(stdin, <<>>, 0))

\* Ctrl-C at the prompt: input() raises KeyboardInterrupt
KeyboardInterrupt ==
    /\ session = "running"
    /\ stdout' = stdout \o farewell_message
    /\ session' = "ended"
    /\ UNCHANGED <<heap, global_variable_context, local_variable_contexts,
                   functions, string, output, before, stdin, steps>>

NextRepl == Repl \/ KeyboardInterrupt

SpecRepl == InitRepl /\ [][NextRepl]_vars

\* C17: in the REPL loop, whenever the evaluation of an input fails, whatever
\* the cause, the loop prints an 'ERROR: ...' line and goes on to read the
\* next input: the session ends only on keyboard interrupt or end of input,
\* never because an expression failed.
C17_ReplSurvivesEveryFailure ==
    /\ session # "raised"
    /\ (Called /\ output.err \notin {"", "KeyboardInterrupt", "EOFError"}
           /\ stdout[Len(stdout)] # farewell_message[2])
           => session = "running" /\ stdout[Len(stdout)].error

====
